---- MODULE Spec2Model ----
(***************************************************************************)
(* Model of src/app.py: a websocket thread (CoinbaseWebSocket.on_message)  *)
(* that appends ticker rows to the global frame market_data, and the main  *)
(* thread (main / plot_graph) that resamples the frame into 15-second      *)
(* candles and computes pivot levels.                                      *)
(*                                                                         *)
(* The two threads share the global name market_data.  A step of the model *)
(* is one access to that global (a load or a store of the name, or an      *)
(* in-place column assignment) together with the thread-local work around  *)
(* it; the interpreter lock makes each such access atomic and lets the     *)
(* other thread run between any two of them.                               *)
(*                                                                         *)
(* Representation: a frame is a sequence of rows, the row label i of a     *)
(* frame with a default RangeIndex being its position (1-based here,       *)
(* 0-based in pandas).  A timestamp is its number of whole seconds since   *)
(* the epoch, prices and sizes are exact numbers (the feed's decimal       *)
(* strings are whole numbers here), a quotient is an exact fraction.       *)
(***************************************************************************)
EXTENDS Integers, Sequences, FiniteSets, TLC

\* Largest number of rows the checked frame keeps (MAX_ROWS, 60000 in the source).
MaxRowsBound == 2

\* Length of the trailing indicator window (period, 15000 in the source).
PeriodBound == 1

\* Largest number of ticks the handler admits while one call of plot_graph
\* is past its line 119.
MaxRace == 1

\* Largest number of rows of a frame handed to the level functions on their
\* own, and largest period they are called with.
MaxWindow == 3

\* Largest number of candles handed to the VWAP columns on their own.
MaxCandles == 3

MAX_ROWS == MaxRowsBound

period == PeriodBound

\* Seconds in the resampling rule "15S".
BucketSeconds == 15

\* Seconds in a day: the default origin of resample is midnight of the first day.
DaySeconds == 86400

\* pandas.NaT, the missing timestamp; it sorts before every timestamp.
NaT == -1

----------------------------------------------------------------------------
(* Values of the JSON fields read with data.get(...).                       *)

\* A JSON field: absent (None), the empty string, a non-numeric string, or a
\* decimal string denoting the number v.
Field(k, v) == [k |-> k, v |-> v]

None == Field("none", 0)

Empty == Field("empty", 0)

Text == Field("text", 0)

Num(v) == Field("num", v)

\* Variant of Truthy: the test "is not None", which lets "" through.
Truthy_NotNone(x) == x.k # "none"

\* Truth value of a field in "if price and shares": None and "" are false.
Truthy(x) == x.k \notin {"none", "empty"}

\* float(x) returns a number exactly for a numeric string, else raises ValueError.
FloatParses(x) == x.k = "num"

float(x) == x.v

Msg(type, time, price, size, side) ==
    [type |-> type, time |-> time, price |-> price, last_size |-> size, side |-> side]

\* The messages the feed may deliver, in any order and any number of times.
\* Two ticks share second 86407, a tick of second 86403 may arrive after
\* them, the buckets 86415 and 86430 stay empty, one tick has size 0.
ValidTicks ==
    { Msg("ticker", 86407, Num(2), Num(1), "buy"),
      Msg("ticker", 86403, Num(3), Num(0), "sell"),
      Msg("ticker", 86447, Num(1), Num(2), "sell") }

\* Numeric strings that denote no price and no size of a trade.
OddTicks ==
    { Msg("ticker", 86407, Num(0), Num(-1), "sell") }

BadTicks ==
    { Msg("ticker", 86407, None, Num(1), "buy"),
      Msg("ticker", 86407, Num(2), Empty, "buy"),
      Msg("ticker", 86407, Text, Num(1), "buy"),
      Msg("ticker", 86407, Num(2), Text, "sell") }

OtherMessages == { Msg("subscriptions", 0, None, None, "") }

Feed == ValidTicks \cup OddTicks \cup BadTicks \cup OtherMessages

----------------------------------------------------------------------------
(* pandas operations on frames.                                             *)

Row(time, product_id, price, shares, side) ==
    [time |-> time, product_id |-> product_id, price |-> price,
     shares |-> shares, side |-> side]

\* pd.concat([frame, pd.DataFrame([row])], ignore_index=True)
concat(frame, row) == Append(frame, row)

\* frame.tail(n).reset_index(drop=True)
tail(frame, n) ==
    IF Len(frame) > n THEN SubSeq(frame, Len(frame) - n + 1, Len(frame)) ELSE frame

\* Variant of IsEmpty: the test of line 119 always passes.
IsEmpty_never(frame) == FALSE

\* DataFrame.empty
IsEmpty(frame) == Len(frame) = 0

\* pd.to_datetime(frame["time"]): the Series of the frame's timestamps by row label.
to_datetime(frame) == [i \in 1..Len(frame) |-> frame[i].time]

\* frame["time"] = series: the series is aligned on the frame's row labels; a
\* label the series lacks gets NaT.
set_time(frame, series) ==
    [i \in 1..Len(frame) |->
        [frame[i] EXCEPT !.time = IF i \in DOMAIN series THEN series[i] ELSE NaT]]

----------------------------------------------------------------------------
(* Exact fractions, for the quotients the source takes with "/".            *)

RECURSIVE GCD(_, _)
GCD(a, b) == IF b = 0 THEN a ELSE GCD(b, a % b)

Abs(a) == IF a < 0 THEN 0 - a ELSE a

\* The fraction n/d (d > 0) in lowest terms.
Frac(n, d) ==
    LET g == GCD(Abs(n), d)
    IN  IF n = 0 THEN [n |-> 0, d |-> 1] ELSE [n |-> n \div g, d |-> d \div g]

FracInt(a) == [n |-> a, d |-> 1]

FracAdd(x, y) == Frac(x.n * y.d + y.n * x.d, x.d * y.d)

FracSub(x, y) == Frac(x.n * y.d - y.n * x.d, x.d * y.d)

FracScale(k, x) == Frac(k * x.n, x.d)

FracLeq(x, y) == x.n * y.d <= y.n * x.d

----------------------------------------------------------------------------
(* market_data.set_index("time").resample("15S").agg(...) and dropna().     *)

SetMax(S) == CHOOSE x \in S : \A y \in S : y <= x

SetMin(S) == CHOOSE x \in S : \A y \in S : x <= y

RECURSIVE SeqSum(_)
SeqSum(s) == IF s = <<>> THEN 0 ELSE s[1] + SeqSum(Tail(s))

Prices(rows) == [i \in 1..Len(rows) |-> rows[i].price]

Shares(rows) == [i \in 1..Len(rows) |-> rows[i].shares]

Range(s) == {s[i] : i \in DOMAIN s}

\* Row i comes before row j once the frame is ordered by its time index: by
\* timestamp (NaT first), rows of equal timestamp in their frame order.
Before(frame, i, j) ==
    \/ frame[i].time < frame[j].time
    \/ frame[i].time = frame[j].time /\ i < j

Rank(frame, i) == Cardinality({j \in DOMAIN frame : Before(frame, j, i)}) + 1

\* Variant of sort_by_time: the rows stay in arrival order.
sort_unsorted(frame) == frame

\* The grouper's stable sort of a frame whose time index is not increasing.
sort_by_time(frame) ==
    [k \in 1..Len(frame) |-> frame[CHOOSE i \in DOMAIN frame : Rank(frame, i) = k]]

Stamps(frame) == {frame[i].time : i \in DOMAIN frame} \ {NaT}

\* Left edge of the first bin: origin "start_day" is midnight of the first
\* timestamp's day, and the edge is the last multiple of the rule from that
\* origin that is not after the first timestamp.
start_day(t) == (t \div DaySeconds) * DaySeconds

first_edge(tmin) ==
    start_day(tmin) + ((tmin - start_day(tmin)) \div BucketSeconds) * BucketSeconds

\* The bin labels, from the first timestamp's bin to the last timestamp's bin.
bin_labels(frame) ==
    LET first == first_edge(SetMin(Stamps(frame)))
        n     == (SetMax(Stamps(frame)) - first) \div BucketSeconds
    IN  [k \in 1..(n + 1) |-> first + (k - 1) * BucketSeconds]

\* The rows of the sorted frame that fall in the bin [label, label + rule).
bin_rows(sorted, label) ==
    SelectSeq(sorted, LAMBDA r : r.time # NaT /\ label <= r.time
                                 /\ r.time < label + BucketSeconds)

\* Variant of agg: the high of a bin is the price of its last row.
agg_high_last(label, rows) ==
    IF rows = <<>>
    THEN [time |-> label, nan |-> TRUE, open |-> 0, high |-> 0, low |-> 0,
          close |-> 0, volume |-> 0]
    ELSE [time |-> label, nan |-> FALSE,
          open |-> rows[1].price,
          high |-> rows[Len(rows)].price,
          low |-> SetMin(Range(Prices(rows))),
          close |-> rows[Len(rows)].price,
          volume |-> SeqSum(Shares(rows))]

\* agg: price first/max/min/last and shares sum of one bin.  The price
\* aggregates of a bin without rows are NaN (nan), its shares sum is 0.
agg(label, rows) ==
    IF rows = <<>>
    THEN [time |-> label, nan |-> TRUE, open |-> 0, high |-> 0, low |-> 0,
          close |-> 0, volume |-> 0]
    ELSE [time |-> label, nan |-> FALSE,
          open |-> rows[1].price,
          high |-> SetMax(Range(Prices(rows))),
          low |-> SetMin(Range(Prices(rows))),
          close |-> rows[Len(rows)].price,
          volume |-> SeqSum(Shares(rows))]

\* resample cannot lay bin edges over an index that has rows but no timestamp,
\* and raises.
ResampleRaises(frame) == frame # <<>> /\ Stamps(frame) = {}

resample(frame) ==
    IF Stamps(frame) = {}
    THEN <<>>
    ELSE LET sorted == sort_by_time(frame)
             labels == bin_labels(frame)
         IN  [k \in 1..Len(labels) |-> agg(labels[k], bin_rows(sorted, labels[k]))]

\* Variant of dropna: every bin is kept.
dropna_keep_all(candles) == candles

\* ohlc_data.dropna(): the bins with a NaN aggregate are dropped.
dropna(candles) == SelectSeq(candles, LAMBDA c : ~c.nan)

\* ohlc_data["time"].map(date2num): seconds since the epoch to days.
date2num(candles) ==
    [k \in 1..Len(candles) |->
        [candles[k] EXCEPT !.time = Frac(candles[k].time, DaySeconds)]]

----------------------------------------------------------------------------
(* calculate_pivot and the four level functions, each over                  *)
(* data['price'].tail(period).                                              *)

\* data['price'].tail(period): the last period prices, or all of them.
series_tail(prices, n) ==
    IF Len(prices) > n THEN SubSeq(prices, Len(prices) - n + 1, Len(prices))
    ELSE prices

window_max(data, p) == SetMax(Range(series_tail(Prices(data), p)))

window_min(data, p) == SetMin(Range(series_tail(Prices(data), p)))

\* data['price'].tail(period).iloc[-1]
window_last(data, p) ==
    LET w == series_tail(Prices(data), p) IN w[Len(w)]

\* Variant of calculate_pivot: the sum is halved.
calculate_pivot_half(data, p) ==
    Frac(window_max(data, p) + window_min(data, p) + window_last(data, p), 2)

calculate_pivot(data, p) ==
    Frac(window_max(data, p) + window_min(data, p) + window_last(data, p), 3)

\* Variant of calculate_resistance1: the maximum is subtracted.
calculate_resistance1_max(pivot, data, p) ==
    FracSub(FracScale(2, pivot), FracInt(window_max(data, p)))

calculate_resistance1(pivot, data, p) ==
    FracSub(FracScale(2, pivot), FracInt(window_min(data, p)))

calculate_resistance2(pivot, data, p) ==
    FracAdd(pivot, FracInt(window_max(data, p) - window_min(data, p)))

calculate_support1(pivot, data, p) ==
    FracSub(FracScale(2, pivot), FracInt(window_max(data, p)))

calculate_support2(pivot, data, p) ==
    FracSub(pivot, FracInt(window_max(data, p) - window_min(data, p)))

\* A call binds when it passes as many positional arguments as the function
\* has parameters (none of the functions has a default); else TypeError.
Binds(nparams, args) == Len(args) = nparams

\* The arguments plot_graph passes: calculate_pivot(market_data) and
\* calculate_resistance1(pivot, market_data), ... (no period).
pivot_args(md) == <<md>>

level_args(pivot, md) == <<pivot, md>>

\* The float quotient a / b of a column division: x/0 is an infinity and 0/0
\* is NaN (d = 0), no exception.
Sign(a) == IF a < 0 THEN 0 - 1 ELSE IF a > 0 THEN 1 ELSE 0

FloatDiv(a, b) ==
    IF b = 0 THEN [n |-> Sign(a), d |-> 0]
    ELSE IF b < 0 THEN Frac(0 - a, 0 - b) ELSE Frac(a, b)

\* Variant of CumSum: the column itself, nothing accumulated.
CumSum_none(s) == s

\* (close * volume).cumsum(), volume.cumsum() and their quotient, per candle.
RECURSIVE CumSum(_)
CumSum(s) ==
    IF s = <<>> THEN <<>>
    ELSE LET front == CumSum(SubSeq(s, 1, Len(s) - 1))
         IN  Append(front, (IF front = <<>> THEN 0 ELSE front[Len(front)]) + s[Len(s)])

with_vwap(candles) ==
    LET pv  == CumSum([k \in 1..Len(candles) |-> candles[k].close * candles[k].volume])
        vol == CumSum([k \in 1..Len(candles) |-> candles[k].volume])
    IN  [k \in 1..Len(candles) |->
            [time |-> candles[k].time, open |-> candles[k].open,
             high |-> candles[k].high, low |-> candles[k].low,
             close |-> candles[k].close, volume |-> candles[k].volume,
             nan |-> candles[k].nan,
             cumulative_price_volume |-> pv[k], cumulative_volume |-> vol[k],
             VWAP |-> FloatDiv(pv[k], vol[k])]]

Absent == [present |-> FALSE]

\* Lines 138-142: the five calls in order; the first that does not bind
\* raises TypeError and nothing after it runs.
indicators(md) ==
    IF ~Binds(2, pivot_args(md))
    THEN [raised |-> TRUE]
    ELSE LET pa    == pivot_args(md)
             pivot == calculate_pivot(pa[1], pa[2])
             la    == level_args(pivot, md)
         IN  IF ~Binds(3, la)
             THEN [raised |-> TRUE]
             ELSE [raised |-> FALSE,
                   snapshot |->
                     [present |-> TRUE, pivot |-> pivot,
                      r1 |-> calculate_resistance1(la[1], la[2], la[3]),
                      s1 |-> calculate_support1(la[1], la[2], la[3]),
                      r2 |-> calculate_resistance2(la[1], la[2], la[3]),
                      s2 |-> calculate_support2(la[1], la[2], la[3])]]

----------------------------------------------------------------------------
(* State.                                                                   *)

VARIABLES
    market_data,   \* the global frame (line 18), shared by both threads
    ws_pc,         \* websocket thread: the line on_message is at
    concatenated,  \* on_message: the value of pd.concat(...) before it is stored
    truncated,     \* on_message: the value of tail(MAX_ROWS)... before it is stored
    outcome,       \* how the last call of on_message ended
    accepted,      \* the last MAX_ROWS rows new_row built, in arrival order
    raced,         \* ticks admitted since plot_graph passed line 119
    plot_pc,       \* main thread: the line plot_graph is at
    converted,     \* plot_graph: the value of pd.to_datetime(...) before it is stored
    resampled,     \* plot_graph: the frame its resample read
    ohlc_data,     \* plot_graph: the candles
    snapshot,      \* plot_graph: pivot, r1, s1, r2, s2 once computed
    rendered,      \* chart_placeholder.pyplot(fig) was called
    plot_error,    \* the exception that ended plot_graph, if any
    last_pull      \* how the last finished call of plot_graph ended

ws_vars == <<ws_pc, concatenated, truncated, outcome, accepted, raced>>

plot_vars ==
    <<plot_pc, converted, resampled, ohlc_data, snapshot, rendered, plot_error,
      last_pull>>

vars == <<market_data, ws_vars, plot_vars>>

Init ==
    /\ market_data = <<>>
    /\ ws_pc = "recv"
    /\ concatenated = <<>>
    /\ truncated = <<>>
    /\ outcome = "none"
    /\ accepted = <<>>
    /\ raced = 0
    /\ plot_pc = "line119"
    /\ converted = <<>>
    /\ resampled = <<>>
    /\ ohlc_data = <<>>
    /\ snapshot = Absent
    /\ rendered = FALSE
    /\ plot_error = "none"
    /\ last_pull = "none"

----------------------------------------------------------------------------
(* CoinbaseWebSocket.on_message, lines 35-60.                               *)

\* Line 39.
IsTicker(m) == m.type = "ticker"

\* Line 46: if price and shares.
Admitted(m) == Truthy(m.price) /\ Truthy(m.last_size)

\* Lines 50-51: both float(...) calls return.
Converts(m) == FloatParses(m.price) /\ FloatParses(m.last_size)

\* Lines 47-53.
new_row(m) == Row(m.time, "ETH-USD", float(m.price), float(m.last_size), m.side)

\* The last n elements of a sequence (all of them when it has fewer).
LastRows(s, n) == [i \in 1..(IF Len(s) < n THEN Len(s) ELSE n) |->
                     s[i + (IF Len(s) < n THEN 0 ELSE Len(s) - n)]]

\* plot_graph is inside a call that found the frame non-empty.
InCall == plot_pc \notin {"line119", "raised"}

\* Lines 37-56, up to the store of line 54: the message is parsed and checked
\* and the concatenation of the current frame and the new row is built.  A
\* ValueError of float() leaves the handler; the websocket library catches
\* it, hands it to on_error and goes on with the next message.
OnMessage(m) ==
    /\ ws_pc = "recv"
    /\ (InCall /\ IsTicker(m) /\ Admitted(m) /\ Converts(m)) => raced < MaxRace
    /\ IF ~IsTicker(m)
       THEN /\ outcome' = "ignored"
            /\ UNCHANGED <<ws_pc, concatenated, accepted, raced>>
       ELSE IF ~Admitted(m)
       THEN /\ outcome' = "skipped"
            /\ UNCHANGED <<ws_pc, concatenated, accepted, raced>>
       ELSE IF ~Converts(m)
       THEN /\ outcome' = "ValueError"
            /\ UNCHANGED <<ws_pc, concatenated, accepted, raced>>
       ELSE /\ outcome' = "pending"
            /\ concatenated' = concat(market_data, new_row(m))
            /\ accepted' = LastRows(Append(accepted, new_row(m)), MAX_ROWS)
            /\ raced' = IF InCall THEN raced + 1 ELSE raced
            /\ ws_pc' = "line54"
    /\ UNCHANGED <<market_data, truncated, plot_vars>>

\* Variant of StoreConcat: the store waits until no call of plot_graph is
\* under way, as it would behind a lock held for the whole call.
StoreConcat_waits ==
    /\ ws_pc = "line54"
    /\ ~InCall
    /\ market_data' = concatenated
    /\ concatenated' = <<>>
    /\ ws_pc' = "line59"
    /\ UNCHANGED <<truncated, outcome, accepted, raced, plot_vars>>

\* Line 54: market_data = <the concatenation>.
StoreConcat ==
    /\ ws_pc = "line54"
    /\ market_data' = concatenated
    /\ concatenated' = <<>>
    /\ ws_pc' = "line59"
    /\ UNCHANGED <<truncated, outcome, accepted, raced, plot_vars>>

\* Lines 59-60, up to the store of line 60.
CheckLen ==
    /\ ws_pc = "line59"
    /\ IF Len(market_data) > MAX_ROWS
       THEN /\ truncated' = tail(market_data, MAX_ROWS)
            /\ ws_pc' = "line60"
            /\ UNCHANGED outcome
       ELSE /\ outcome' = "appended"
            /\ ws_pc' = "recv"
            /\ UNCHANGED truncated
    /\ UNCHANGED <<market_data, concatenated, accepted, raced, plot_vars>>

\* Line 60: market_data = <the tail>.
StoreTail ==
    /\ ws_pc = "line60"
    /\ market_data' = truncated
    /\ truncated' = <<>>
    /\ outcome' = "appended"
    /\ ws_pc' = "recv"
    /\ UNCHANGED <<concatenated, accepted, raced, plot_vars>>

----------------------------------------------------------------------------
(* plot_graph, lines 116-181, called in a loop by main (lines 189-190).     *)

\* Line 119.  On an empty frame the call returns and main calls again.
PlotCheck ==
    /\ plot_pc = "line119"
    /\ IF IsEmpty(market_data)
       THEN /\ last_pull' = "returned"
            /\ UNCHANGED plot_pc
       ELSE /\ plot_pc' = "line121"
            /\ UNCHANGED last_pull
    /\ UNCHANGED <<market_data, ws_vars, converted, resampled, ohlc_data, snapshot,
                   rendered, plot_error>>

\* Line 121, right-hand side: pd.to_datetime(market_data["time"]).
PlotConvert ==
    /\ plot_pc = "line121"
    /\ converted' = to_datetime(market_data)
    /\ plot_pc' = "line121_store"
    /\ UNCHANGED <<market_data, ws_vars, resampled, ohlc_data, snapshot, rendered,
                   plot_error, last_pull>>

\* Line 121, the assignment: market_data["time"] = <the series>, in place on
\* the frame the global names now.
PlotAssign ==
    /\ plot_pc = "line121_store"
    /\ market_data' = set_time(market_data, converted)
    /\ converted' = <<>>
    /\ plot_pc' = "line122"
    /\ UNCHANGED <<ws_vars, resampled, ohlc_data, snapshot, rendered, plot_error,
                   last_pull>>

\* Lines 122-136: the resample of the frame the global names now, dropna,
\* and, on local data only, the emptiness test and the date2num mapping.
PlotResample ==
    /\ plot_pc = "line122"
    /\ resampled' = market_data
    /\ IF ResampleRaises(market_data)
       THEN /\ plot_error' = "ValueError"
            /\ last_pull' = "raised"
            /\ plot_pc' = "raised"
            /\ UNCHANGED ohlc_data
       ELSE LET candles == dropna(resample(market_data))
            IN  IF candles = <<>>
                THEN /\ last_pull' = "returned"
                     /\ plot_pc' = "line119"
                     /\ UNCHANGED <<ohlc_data, plot_error>>
                ELSE /\ ohlc_data' = date2num(candles)
                     /\ plot_pc' = "line138"
                     /\ UNCHANGED <<plot_error, last_pull>>
    /\ UNCHANGED <<market_data, ws_vars, converted, snapshot, rendered>>

\* Lines 138-181.  An exception leaves plot_graph and main (line 190 has no
\* handler) and the local frame ohlc_data is gone.  With the levels computed,
\* line 165 uses the name ax1, which nothing defines: NameError, before line
\* 181 renders.
PlotIndicators ==
    /\ plot_pc = "line138"
    /\ LET r == indicators(market_data)
       IN  IF r.raised
           THEN /\ plot_error' = "TypeError"
                /\ ohlc_data' = <<>>
                /\ UNCHANGED snapshot
           ELSE /\ snapshot' = r.snapshot
                /\ ohlc_data' = with_vwap(ohlc_data)
                /\ plot_error' = "NameError"
    /\ resampled' = <<>>
    /\ last_pull' = "raised"
    /\ plot_pc' = "raised"
    /\ UNCHANGED <<market_data, ws_vars, converted, rendered>>

----------------------------------------------------------------------------

Next ==
    \/ \E m \in Feed : OnMessage(m)
    \/ StoreConcat
    \/ CheckLen
    \/ StoreTail
    \/ PlotCheck
    \/ PlotConvert
    \/ PlotAssign
    \/ PlotResample
    \/ PlotIndicators

Spec == Init /\ [][Next]_vars

\* The program on a feed of valid ticker messages only, with the websocket
\* thread scheduled fairly: a store of on_message that is due is eventually
\* done.  Nothing is assumed of the main thread: it may run at any speed,
\* stop at any line, or have ended.
FairNext ==
    \/ \E m \in ValidTicks : OnMessage(m)
    \/ StoreConcat
    \/ CheckLen
    \/ StoreTail
    \/ PlotCheck
    \/ PlotConvert
    \/ PlotAssign
    \/ PlotResample
    \/ PlotIndicators

FairSpec ==
    /\ Init
    /\ [][FairNext]_vars
    /\ WF_vars(StoreConcat)
    /\ WF_vars(CheckLen)
    /\ WF_vars(StoreTail)

----------------------------------------------------------------------------
(* The level functions of lines 82-100 on their own: called as they are     *)
(* defined, with a frame and a period, on every frame of up to MaxWindow    *)
(* rows.                                                                    *)

\* The rows on_message builds from the numeric ticks of the feed.
TickRows == {new_row(m) : m \in ValidTicks \cup OddTicks}

\* The frames of n rows.
FramesOfLen(n) == [1..n -> TickRows]

LevelFrames == UNION {FramesOfLen(n) : n \in 1..MaxWindow}

\* Nothing under way in either thread but the call under study.
Quiet ==
    /\ ws_pc = "recv"
    /\ concatenated = <<>>
    /\ truncated = <<>>
    /\ outcome = "none"
    /\ accepted = <<>>
    /\ raced = 0
    /\ converted = <<>>
    /\ resampled = <<>>
    /\ snapshot = Absent
    /\ rendered = FALSE
    /\ plot_error = "none"
    /\ last_pull = "none"

LevelsInit ==
    /\ market_data \in LevelFrames
    /\ ohlc_data = <<>>
    /\ plot_pc = "levels"
    /\ Quiet

\* calculate_pivot(data, p), then the four level functions on its result.
CallLevels(p) ==
    /\ plot_pc = "levels"
    /\ LET pivot == calculate_pivot(market_data, p)
       IN  snapshot' =
             [present |-> TRUE, pivot |-> pivot,
              r1 |-> calculate_resistance1(pivot, market_data, p),
              s1 |-> calculate_support1(pivot, market_data, p),
              r2 |-> calculate_resistance2(pivot, market_data, p),
              s2 |-> calculate_support2(pivot, market_data, p)]
    /\ plot_pc' = "levels_done"
    /\ UNCHANGED <<market_data, ws_vars, converted, resampled, ohlc_data, rendered,
                   plot_error, last_pull>>

LevelsNext == \E p \in 1..MaxWindow : CallLevels(p)

LevelsSpec == LevelsInit /\ [][LevelsNext]_vars

----------------------------------------------------------------------------
(* The VWAP columns of lines 144-146 on their own, on every sequence of up  *)
(* to MaxCandles candles, one per consecutive bucket, each aggregated from  *)
(* one tick row.                                                            *)

\* The candle of the k-th bucket of the day 86400, made of one row.
CandleOf(k, row) ==
    LET label == DaySeconds + (k - 1) * BucketSeconds
    IN  agg(label, <<[row EXCEPT !.time = label]>>)

CandlesOfLen(n) ==
    {date2num([k \in 1..n |-> CandleOf(k, rows[k])]) : rows \in FramesOfLen(n)}

CandleInputs == UNION {CandlesOfLen(n) : n \in 1..MaxCandles}

VwapInit ==
    /\ market_data = <<>>
    /\ ohlc_data \in CandleInputs
    /\ plot_pc = "line144"
    /\ Quiet

\* Lines 144-146.
ApplyVwap ==
    /\ plot_pc = "line144"
    /\ ohlc_data' = with_vwap(ohlc_data)
    /\ plot_pc' = "line147"
    /\ UNCHANGED <<market_data, ws_vars, converted, resampled, snapshot, rendered,
                   plot_error, last_pull>>

VwapNext == ApplyVwap

VwapSpec == VwapInit /\ [][VwapNext]_vars

----------------------------------------------------------------------------
(* Properties.                                                              *)

\* C1: in every reachable state the frame holds at most MAX_ROWS rows,
\* the states between the two stores of on_message included.
C1_LengthAtMostCapacity == Len(market_data) <= MAX_ROWS

\* C2: whenever on_message is not running, the frame is exactly the last
\* min(n, MAX_ROWS) admitted rows, field by field, in arrival order.
C2_BufferIsLastAccepted == ws_pc = "recv" => market_data = accepted

\* A field that is missing or empty.
MissingOrEmpty(x) == x.k \in {"none", "empty"}

\* A field that is present, not empty, and not a number.
NonNumeric(x) == x.k = "text"

\* C3: a ticker message whose price or last_size is missing or empty leaves
\* the frame as it was and ends the handler without an error and without an
\* append under way.
C3_MissingFieldSkipped ==
    [][\A m \in Feed :
          (/\ IsTicker(m)
           /\ MissingOrEmpty(m.price) \/ MissingOrEmpty(m.last_size)
           /\ OnMessage(m))
          => (market_data' = market_data /\ outcome' = "skipped" /\ ws_pc' = "recv")]_vars

\* A message with a missing or empty field was handled and skipped.
C3_Witness == outcome = "skipped" /\ ws_pc = "recv"

\* C4: a ticker message whose price or last_size is present but not numeric
\* ends the handler as a skipped (rejected) append, not with an exception, and
\* leaves the frame as it was.
C4_NonNumericRejected ==
    [][\A m \in Feed :
          (/\ IsTicker(m)
           /\ Admitted(m)
           /\ NonNumeric(m.price) \/ NonNumeric(m.last_size)
           /\ OnMessage(m))
          => (market_data' = market_data /\ outcome' = "skipped")]_vars

\* C5: every row of the frame has a price above zero and a size of at least
\* zero.
C5_StoredTicksAreTrades ==
    \A i \in DOMAIN market_data :
        market_data[i].price > 0 /\ market_data[i].shares >= 0

\* C6: a call of plot_graph that finds the frame empty returns at once: no
\* candles, no levels, nothing rendered, no exception.
C6_EmptyPullIsAbsent ==
    [][(plot_pc = "line119" /\ market_data = <<>> /\ plot_vars' # plot_vars)
          => (/\ plot_pc' = "line119"
              /\ last_pull' = "returned"
              /\ ohlc_data' = <<>>
              /\ snapshot' = Absent
              /\ rendered' = FALSE
              /\ plot_error' = "none")]_vars

\* A call of plot_graph has returned on the empty frame.
C6_Witness == last_pull = "returned" /\ market_data = <<>> /\ plot_pc = "line119"

\* C7: no call of plot_graph ends in an exception.
C7_PullNeverRaises == plot_error = "none" /\ last_pull # "raised"

\* The trailing window of the frame: its last min(period, length) rows.
Window(md) == LastRows(md, period)

WindowHigh(md) == SetMax(Range(Prices(Window(md))))

WindowLow(md) == SetMin(Range(Prices(Window(md))))

WindowClose(md) == md[Len(md)].price

\* (H + L + C) / 3, and k * pivot + a, as exact fractions.
PivotOf(md) == Frac(WindowHigh(md) + WindowLow(md) + WindowClose(md), 3)

Level(md, k, a) ==
    Frac(k * (WindowHigh(md) + WindowLow(md) + WindowClose(md)) + 3 * a, 3)

\* C8: the call of plot_graph that reaches the levels produces them from the
\* trailing window of the frame: pivot = (H + L + C)/3, resistance1 =
\* 2*pivot - L, support1 = 2*pivot - H, resistance2 = pivot + (H - L),
\* support2 = pivot - (H - L).
C8_LevelsOverTrailingWindow ==
    [][(plot_pc = "line138" /\ plot_pc' # "line138")
          => (/\ snapshot'.present
              /\ snapshot'.pivot = PivotOf(market_data)
              /\ snapshot'.r1 = Level(market_data, 2, 0 - WindowLow(market_data))
              /\ snapshot'.s1 = Level(market_data, 2, 0 - WindowHigh(market_data))
              /\ snapshot'.r2 =
                   Level(market_data, 1, WindowHigh(market_data) - WindowLow(market_data))
              /\ snapshot'.s2 =
                   Level(market_data, 1, WindowLow(market_data) - WindowHigh(market_data)))]_vars

\* The epoch-anchored bucket of a timestamp, and a bucket start as plotted
\* (date2num: days).
BucketOf(t) == (t \div BucketSeconds) * BucketSeconds

Days(b) == Frac(b, DaySeconds)

\* The rows of a frame whose timestamp falls in bucket b.
Members(frame, b) ==
    {i \in DOMAIN frame : frame[i].time # NaT /\ BucketOf(frame[i].time) = b}

\* The buckets that hold a row of the frame.
Buckets(frame) == {BucketOf(t) : t \in Stamps(frame)}

\* The member with the earliest (latest) timestamp, the earlier (later)
\* arrival among equal timestamps.
Earliest(frame, S) ==
    CHOOSE i \in S : \A j \in S \ {i} :
        \/ frame[i].time < frame[j].time
        \/ frame[i].time = frame[j].time /\ i < j

Latest(frame, S) ==
    CHOOSE i \in S : \A j \in S \ {i} :
        \/ frame[j].time < frame[i].time
        \/ frame[j].time = frame[i].time /\ j < i

RECURSIVE SharesOf(_, _)
SharesOf(frame, S) ==
    IF S = {} THEN 0
    ELSE LET i == CHOOSE x \in S : TRUE
         IN  frame[i].shares + SharesOf(frame, S \ {i})

\* The candles of bucket b among the candles produced.
CandlesOf(b) == {k \in DOMAIN ohlc_data : ohlc_data[k].time = Days(b)}

\* C9: each bucket that holds a tick has a candle whose open is the price of
\* the tick with the earliest timestamp, close that of the latest (equal
\* timestamps by arrival), high and low the largest and smallest price and
\* volume the sum of the sizes of the bucket's ticks.
C9_CandleOfBucket ==
    plot_pc = "line138" =>
        \A b \in Buckets(resampled) :
            \E k \in CandlesOf(b) :
                LET c == ohlc_data[k]
                    S == Members(resampled, b)
                IN  /\ c.open = resampled[Earliest(resampled, S)].price
                    /\ c.close = resampled[Latest(resampled, S)].price
                    /\ c.high = SetMax({resampled[i].price : i \in S})
                    /\ c.low = SetMin({resampled[i].price : i \in S})
                    /\ c.volume = SharesOf(resampled, S)

\* Candles were produced from a bucket whose ticks did not arrive in the
\* order of their timestamps, and from one with two ticks of one timestamp.
C9_Witness ==
    /\ plot_pc = "line138"
    /\ \E i, j \in DOMAIN resampled :
          /\ i < j
          /\ resampled[j].time # NaT
          /\ resampled[j].time < resampled[i].time
          /\ BucketOf(resampled[i].time) = BucketOf(resampled[j].time)
          /\ resampled[i].price # resampled[j].price

\* C10: the candles partition the buffered ticks by epoch-anchored bucket:
\* every bucket start is a multiple of the width, the starts increase
\* strictly, every tick is in exactly one candle, that of the bucket of its
\* timestamp, and so the volumes add up to the size of all buffered ticks.
C10_CandlesPartitionTicks ==
    plot_pc = "line138" =>
        /\ \A k \in DOMAIN ohlc_data :
              \E b \in Buckets(resampled) :
                  b % BucketSeconds = 0 /\ ohlc_data[k].time = Days(b)
        /\ \A k \in DOMAIN ohlc_data : \A l \in DOMAIN ohlc_data :
              k < l => (/\ FracLeq(ohlc_data[k].time, ohlc_data[l].time)
                        /\ ohlc_data[k].time # ohlc_data[l].time)
        /\ \A b \in Buckets(resampled) :
              /\ Cardinality(CandlesOf(b)) = 1
              /\ \A k \in CandlesOf(b) :
                    ohlc_data[k].volume = SharesOf(resampled, Members(resampled, b))
        /\ SeqSum([k \in DOMAIN ohlc_data |-> ohlc_data[k].volume])
             = SeqSum(Shares(resampled))

\* C11: the candles are exactly the buckets that hold a tick of the frame the
\* resample read, one candle each; no candle stands for a bucket without a
\* tick, whether between two buckets with ticks or elsewhere, and no candle
\* carries placeholder (NaN) prices.
C11_NoCandleForEmptyBucket ==
    plot_pc = "line138" =>
        /\ \A k \in DOMAIN ohlc_data :
              /\ ~ohlc_data[k].nan
              /\ \E b \in Buckets(resampled) : ohlc_data[k].time = Days(b)
        /\ \A b \in Buckets(resampled) : Cardinality(CandlesOf(b)) = 1
        /\ Len(ohlc_data) = Cardinality(Buckets(resampled))

\* Candles were produced from a frame with ticks in two buckets that have a
\* bucket without ticks between them.
C11_Witness ==
    /\ plot_pc = "line138"
    /\ \E b, c \in Buckets(resampled) : b + BucketSeconds < c
    /\ Len(ohlc_data) = 2

\* C12: every candle a call of plot_graph holds has its open and its close
\* between its low and its high.
C12_OhlcConsistent ==
    \A k \in DOMAIN ohlc_data :
        /\ ohlc_data[k].low <= ohlc_data[k].open
        /\ ohlc_data[k].open <= ohlc_data[k].high
        /\ ohlc_data[k].low <= ohlc_data[k].close
        /\ ohlc_data[k].close <= ohlc_data[k].high

\* A candle was produced whose open is its high and whose close is its low,
\* from two ticks of one bucket with different prices.
C12_Witness ==
    /\ plot_pc = "line138"
    /\ \E k \in DOMAIN ohlc_data :
          /\ ohlc_data[k].low < ohlc_data[k].high
          /\ ohlc_data[k].open = ohlc_data[k].high
          /\ ohlc_data[k].close = ohlc_data[k].low

\* The sum of f over the candles 1..k, from scratch.
RECURSIVE SumTo(_, _)
SumTo(f, k) == IF k = 0 THEN 0 ELSE SumTo(f, k - 1) + f[k]

\* close * volume, and volume, of each candle.
CloseVolume(candles) == [k \in DOMAIN candles |-> candles[k].close * candles[k].volume]

Volume(candles) == [k \in DOMAIN candles |-> candles[k].volume]

\* The quotient a/b of a non-zero b as an exact fraction.
Quotient(a, b) == IF b < 0 THEN Frac(0 - a, 0 - b) ELSE Frac(a, b)

\* The candles 1..k of the sequence, as a sequence of their own.
Upto(candles, k) == [i \in 1..k |-> candles[i]]

\* C13: once the VWAP columns are computed, at every candle k with a
\* cumulative volume other than zero the VWAP is the sum of close * volume
\* over the candles 1..k divided by the sum of volume over the candles 1..k,
\* the two running columns are these two sums, and computing the columns
\* over the candles 1..k alone gives the same value at k.
C13_VwapIsCumulativeQuotient ==
    plot_pc = "line147" =>
        \A k \in DOMAIN ohlc_data :
            LET pv  == SumTo(CloseVolume(ohlc_data), k)
                vol == SumTo(Volume(ohlc_data), k)
            IN  /\ ohlc_data[k].cumulative_price_volume = pv
                /\ ohlc_data[k].cumulative_volume = vol
                /\ vol # 0 => ohlc_data[k].VWAP = Quotient(pv, vol)
                /\ with_vwap(Upto(ohlc_data, k))[k].VWAP = ohlc_data[k].VWAP

\* The columns were computed over three candles of different closes, with a
\* cumulative volume other than zero at the last.
C13_Witness ==
    /\ plot_pc = "line147"
    /\ Len(ohlc_data) = 3
    /\ ohlc_data[1].close # ohlc_data[2].close
    /\ ohlc_data[2].close # ohlc_data[3].close
    /\ ohlc_data[1].volume > 0
    /\ ohlc_data[2].volume > 0
    /\ ohlc_data[3].cumulative_volume > 0

\* C14: once the VWAP columns are computed, a candle with a cumulative volume
\* of zero has no VWAP value: its VWAP is absent, not a number, not NaN and
\* not an infinity.
C14_ZeroVolumeVwapAbsent ==
    plot_pc = "line147" =>
        \A k \in DOMAIN ohlc_data :
            ohlc_data[k].cumulative_volume = 0 => ohlc_data[k].VWAP = Absent

\* The levels of the trailing window of frame B, as the claim states them.
LevelsOf(B) ==
    [present |-> TRUE, pivot |-> PivotOf(B),
     r1 |-> Level(B, 2, 0 - WindowLow(B)),
     s1 |-> Level(B, 2, 0 - WindowHigh(B)),
     r2 |-> Level(B, 1, WindowHigh(B) - WindowLow(B)),
     s2 |-> Level(B, 1, WindowLow(B) - WindowHigh(B))]

\* C15: the call of plot_graph that reaches the levels ends with candles and
\* levels of one state B of the frame, one of the states the call read: the
\* candles are the resample of B and the levels those of B's trailing window.
C15_OneBufferState ==
    [][(plot_pc = "line138" /\ plot_pc' # "line138")
          => \E B \in {resampled, market_data} :
                /\ ohlc_data = date2num(dropna(resample(B)))
                /\ snapshot' = LevelsOf(B)]_vars

\* C16: a step of plot_graph leaves the frame as it is, and whenever neither
\* on_message nor plot_graph is under way the frame is the rows admitted, as
\* the appends alone leave them.
C16_OnlyAppendMutates ==
    [][/\ plot_vars' # plot_vars => market_data' = market_data
       /\ (ws_pc' = "recv" /\ ~InCall') => market_data' = accepted']_vars

\* The last element of a non-empty sequence.
Last(s) == s[Len(s)]

\* C17: a store of on_message that is due can be done whatever line
\* plot_graph is at; the row of an admitted ticker message gets into the
\* frame, and the handler gets back to receiving with the append done.
C17_IngestionNotBlocked ==
    /\ [](ws_pc = "line54" => ENABLED StoreConcat)
    /\ [](ws_pc = "line59" => ENABLED CheckLen)
    /\ [](ws_pc = "line60" => ENABLED StoreTail)
    /\ \A r \in TickRows :
          (ws_pc = "line54" /\ Last(concatenated) = r)
              ~> (ws_pc = "line59" /\ Last(market_data) = r)
    /\ (ws_pc # "recv") ~> (ws_pc = "recv" /\ outcome = "appended")

\* An append was begun and finished while a call of plot_graph was past its
\* line 119.
C17_Witness ==
    /\ InCall
    /\ raced > 0
    /\ ws_pc = "recv"
    /\ outcome = "appended"

\* What a call of plot_graph computes from frame B when nothing is appended
\* meanwhile: its candles with the VWAP columns.
CandlesFrom(B) ==
    with_vwap(date2num(dropna(resample(set_time(B, to_datetime(B))))))

\* C18: a call of plot_graph that read one frame throughout ends with the
\* loop of main about to call it again and the frame as it was, so that the
\* next call computes from the same frame the candles and levels this call
\* ended with.
C18_PullRepeatable ==
    [][(plot_pc = "line138" /\ plot_pc' # "line138" /\ market_data = resampled)
          => (/\ plot_pc' = "line119"
              /\ market_data' = market_data
              /\ ohlc_data' = CandlesFrom(market_data')
              /\ snapshot' = LevelsOf(market_data'))]_vars

\* The window of a call of the level functions with period p: the last
\* min(p, length) rows of the frame.
WindowOf(p) == LastRows(market_data, p)

====
